---- MODULE Spec2Model ----
(***************************************************************************)
(* A model of rasterio/_crs.pyx: the CRS container, its PROJ.4 codec       *)
(* (to_string / from_string / from_epsg), the parameter vocabulary         *)
(* all_proj_keys, and the native spatial-reference handles the container   *)
(* acquires in is_geographic, is_projected, is_valid, __eq__ and wkt.      *)
(*                                                                         *)
(* A Python str is a sequence of one-character strings, so that strip,     *)
(* split, lstrip, startswith, int(), float() and str() are computed        *)
(* character by character as the interpreter computes them.                *)
(***************************************************************************)
EXTENDS Integers, Sequences, FiniteSets

VARIABLES pc, self, prjs, code, ret, live, owned, freed, locals, stack

vars == <<pc, self, prjs, code, ret, live, owned, freed, locals, stack>>

(***************************************************************************)
(* Bounds of the model.                                                    *)
(***************************************************************************)
\* entries of a mapping handed to the CRS constructor
MaxEntries == 2
\* tokens of a multi-token PROJ.4 string
MaxTokens == 2
\* integer EPSG codes run over -1 .. MaxCode
MaxCode == 3
\* native handles that can be live at once
MaxHandles == 4

(***************************************************************************)
(* Characters.                                                             *)
(***************************************************************************)
\* The printable ASCII characters in code-point order, from 32 (space). The
\* back quote (96) cannot be written in a string here: an empty string holds
\* its place.
ascii ==
  <<" ", "!", "\"", "#", "$", "%", "&", "'", "(", ")", "*", "+", ",", "-",
    ".", "/", "0", "1", "2", "3", "4", "5", "6", "7", "8", "9", ":", ";",
    "<", "=", ">", "?", "@", "A", "B", "C", "D", "E", "F", "G", "H", "I",
    "J", "K", "L", "M", "N", "O", "P", "Q", "R", "S", "T", "U", "V", "W",
    "X", "Y", "Z", "[", "\\", "]", "^", "_", "", "a", "b", "c", "d", "e",
    "f", "g", "h", "i", "j", "k", "l", "m", "n", "o", "p", "q", "r", "s",
    "t", "u", "v", "w", "x", "y", "z", "{", "|", "}", "~">>

\* ord(c): the code point of a character (tab is 9).
ord(c) == IF c = "\t" THEN 9 ELSE 31 + (CHOOSE i \in DOMAIN ascii : ascii[i] = c)

\* Characters str.strip() and str.split() treat as whitespace.
whitespace == {" ", "\t"}

digits == {"0", "1", "2", "3", "4", "5", "6", "7", "8", "9"}

digit_value(c) == ord(c) - 48

\* str.upper() and str.lower() on one character.
upper_char(c) == IF ord(c) >= 97 /\ ord(c) <= 122 THEN ascii[ord(c) - 32 - 31] ELSE c

lower_char(c) == IF ord(c) >= 65 /\ ord(c) <= 90 THEN ascii[ord(c) + 32 - 31] ELSE c

(***************************************************************************)
(* Python str methods.                                                     *)
(***************************************************************************)
\* The text of a str, as one TLA+ string (for comparison with literals).
RECURSIVE Str(_)
Str(s) == IF s = <<>> THEN "" ELSE Head(s) \o Str(Tail(s))

upper(s) == [i \in DOMAIN s |-> upper_char(s[i])]

lower(s) == [i \in DOMAIN s |-> lower_char(s[i])]

\* s[n:]
drop(s, n) == SubSeq(s, n + 1, Len(s))

\* str.lstrip(chars): drop the leading characters that are in cs.
RECURSIVE lstrip(_, _)
lstrip(s, cs) == IF s # <<>> /\ Head(s) \in cs THEN lstrip(Tail(s), cs) ELSE s

RECURSIVE rstrip(_, _)
rstrip(s, cs) ==
  IF s # <<>> /\ s[Len(s)] \in cs THEN rstrip(SubSeq(s, 1, Len(s) - 1), cs) ELSE s

\* str.strip(): both ends, whitespace.
strip(s) == rstrip(lstrip(s, whitespace), whitespace)

\* str.startswith(p), p a TLA+ string
startswith(s, p) == Len(s) >= Len(p) /\ Str(SubSeq(s, 1, Len(p))) = p

\* c in s
contains(s, c) == \E i \in DOMAIN s : s[i] = c

\* The index of the first c in s, or 0.
find(s, c) == IF contains(s, c) THEN CHOOSE i \in DOMAIN s : s[i] = c /\ \A j \in 1..(i - 1) : s[j] # c ELSE 0

\* str.split(sep): every field between separators, empty fields kept.
RECURSIVE split(_, _)
split(s, sep) ==
  IF find(s, sep) = 0 THEN <<s>>
  ELSE <<SubSeq(s, 1, find(s, sep) - 1)>> \o split(drop(s, find(s, sep)), sep)

\* The first run of non-whitespace characters of s (s starts with one).
RECURSIVE first_word(_)
first_word(s) ==
  IF s = <<>> \/ Head(s) \in whitespace THEN <<>> ELSE <<Head(s)>> \o first_word(Tail(s))

\* str.split(): the runs of non-whitespace characters, no empty fields.
RECURSIVE split_whitespace(_)
split_whitespace(s) ==
  LET t == lstrip(s, whitespace) IN
  IF t = <<>> THEN <<>>
  ELSE <<first_word(t)>> \o split_whitespace(drop(t, Len(first_word(t))))

\* sep.join(parts)
RECURSIVE join(_, _)
join(sep, parts) ==
  IF parts = <<>> THEN <<>>
  ELSE IF Len(parts) = 1 THEN parts[1]
  ELSE parts[1] \o sep \o join(sep, Tail(parts))

\* a < b for two str: lexicographic by code point, a proper prefix first.
RECURSIVE str_less(_, _)
str_less(a, b) ==
  IF b = <<>> THEN FALSE
  ELSE IF a = <<>> THEN TRUE
  ELSE IF Head(a) # Head(b) THEN ord(Head(a)) < ord(Head(b))
  ELSE str_less(Tail(a), Tail(b))

(***************************************************************************)
(* Python numbers: int(), float() and str() of them.                       *)
(***************************************************************************)
all_digits(u) == \A i \in DOMAIN u : u[i] \in digits

is_digits(u) == u # <<>> /\ all_digits(u)

\* The number a run of decimal digits writes.
RECURSIVE digits_value(_)
digits_value(u) ==
  IF u = <<>> THEN 0
  ELSE 10 * digits_value(SubSeq(u, 1, Len(u) - 1)) + digit_value(u[Len(u)])

\* A str without its leading sign, and the sign (1 or -1).
unsigned(t) == IF t # <<>> /\ Head(t) \in {"+", "-"} THEN Tail(t) ELSE t

sign_of(t) == IF t # <<>> /\ Head(t) = "-" THEN -1 ELSE 1

\* int(s) succeeds: optional surrounding whitespace, optional sign, digits.
is_int_literal(s) == is_digits(unsigned(strip(s)))

\* int(s) when it succeeds
int_of_str(s) == sign_of(strip(s)) * digits_value(unsigned(strip(s)))

\* str(n) of a natural number
RECURSIVE nat_str(_)
nat_str(n) ==
  IF n < 10 THEN <<ascii[n + 48 - 31]>> ELSE nat_str(n \div 10) \o <<ascii[(n % 10) + 48 - 31]>>

\* str(n) of an int
int_str(n) == IF n < 0 THEN <<"-">> \o nat_str(-n) ELSE nat_str(n)

\* A float is its sign, and either a decimal m * 10^e (m has no trailing zero;
\* zero is m = 0, e = 0) or one of the special values.
Float(sg, m, e) == [t |-> "float", sign |-> sg, m |-> m, e |-> e, special |-> "no"]

FloatSpecial(sg, name) == [t |-> "float", sign |-> sg, m |-> 0, e |-> 0, special |-> name]

RECURSIVE normal(_, _, _)
normal(sg, m, e) ==
  IF m = 0 THEN Float(sg, 0, 0)
  ELSE IF m % 10 = 0 THEN normal(sg, m \div 10, e + 1)
  ELSE Float(sg, m, e)

\* The index of the exponent mark of a float literal, or 0.
exp_mark(u) == IF find(u, "e") # 0 THEN find(u, "e") ELSE find(u, "E")

mantissa_part(u) == IF exp_mark(u) = 0 THEN u ELSE SubSeq(u, 1, exp_mark(u) - 1)

exponent_part(u) == IF exp_mark(u) = 0 THEN <<"0">> ELSE drop(u, exp_mark(u))

int_digits(mp) == IF find(mp, ".") = 0 THEN mp ELSE SubSeq(mp, 1, find(mp, ".") - 1)

frac_digits(mp) == IF find(mp, ".") = 0 THEN <<>> ELSE drop(mp, find(mp, "."))

is_decimal_literal(u) ==
  /\ all_digits(int_digits(mantissa_part(u)))
  /\ all_digits(frac_digits(mantissa_part(u)))
  /\ int_digits(mantissa_part(u)) \o frac_digits(mantissa_part(u)) # <<>>
  /\ is_digits(unsigned(exponent_part(u)))

is_special_literal(u) == Str(lower(u)) \in {"inf", "infinity", "nan"}

\* float(s) succeeds
is_float_literal(s) ==
  is_decimal_literal(unsigned(strip(s))) \/ is_special_literal(unsigned(strip(s)))

\* The decimal exponent above which a double overflows to inf, and below which
\* it underflows to zero.
FloatMaxExp10 == 308
FloatMinExp10 == -324

\* float(s) when it succeeds
float_of_str(s) ==
  LET t == strip(s)
      u == unsigned(t)
      mp == mantissa_part(u)
      ds == int_digits(mp) \o frac_digits(mp)
      ex == sign_of(exponent_part(u)) * digits_value(unsigned(exponent_part(u)))
      f == normal(sign_of(t), digits_value(ds), ex - Len(frac_digits(mp)))
      top == Len(nat_str(f.m)) + f.e
  IN IF is_special_literal(u)
     THEN (IF Str(lower(u)) = "nan" THEN FloatSpecial(1, "nan")
           ELSE FloatSpecial(sign_of(t), "inf"))
     ELSE IF f.m # 0 /\ top > FloatMaxExp10 + 1 THEN FloatSpecial(sign_of(t), "inf")
     ELSE IF f.m # 0 /\ top < FloatMinExp10 + 1 THEN Float(sign_of(t), 0, 0)
     ELSE f

zeros(n) == [i \in 1..n |-> "0"]

\* The exponent of a float's scientific form: a sign and at least two digits.
exp_str(x) ==
  <<IF x < 0 THEN "-" ELSE "+">>
    \o (IF x < 10 /\ x > -10 THEN <<"0">> ELSE <<>>)
    \o nat_str(IF x < 0 THEN -x ELSE x)

\* The positions of the decimal point between which repr(float) is written
\* without an exponent.
ReprMinPoint == -4
ReprMaxPoint == 16

\* str(f) of a float: the shortest decimal, with an exponent when the
\* decimal point falls at or below ReprMinPoint or above ReprMaxPoint.
float_str(f) ==
  LET d == nat_str(f.m)
      n == Len(d)
      point == n + f.e
      sg == IF f.sign < 0 THEN <<"-">> ELSE <<>>
  IN IF f.special = "nan" THEN <<"n", "a", "n">>
     ELSE IF f.special = "inf" THEN sg \o <<"i", "n", "f">>
     ELSE IF f.m = 0 THEN sg \o <<"0", ".", "0">>
     ELSE IF point > ReprMinPoint /\ point <= 0
       THEN sg \o <<"0", ".">> \o zeros(-point) \o d
     ELSE IF point > 0 /\ point < n
       THEN sg \o SubSeq(d, 1, point) \o <<".">> \o drop(d, point)
     ELSE IF point >= n /\ point <= ReprMaxPoint
       THEN sg \o d \o zeros(point - n) \o <<".", "0">>
     ELSE sg \o <<d[1]>> \o (IF n > 1 THEN <<".">> \o Tail(d) ELSE <<>>)
             \o <<"e">> \o exp_str(point - 1)

(***************************************************************************)
(* Python values: the values of a CRS mapping.                             *)
(***************************************************************************)
PyTrue == [t |-> "bool", b |-> TRUE]

PyFalse == [t |-> "bool", b |-> FALSE]

PyInt(n) == [t |-> "int", n |-> n]

PyStr(s) == [t |-> "str", s |-> s]

PyNone == [t |-> "NoneType"]

\* A list, standing for every value that is no bool, int, float or str.
PyList(xs) == [t |-> "list", xs |-> xs]

\* bool(y)
truthy(y) ==
  CASE y.t = "bool" -> y.b
    [] y.t = "int" -> y.n # 0
    [] y.t = "float" -> y.m # 0 \/ y.special # "no"
    [] y.t = "str" -> y.s # <<>>
    [] y.t = "list" -> y.xs # <<>>
    [] OTHER -> FALSE

\* y == 0
equals_zero(y) ==
  CASE y.t = "bool" -> ~y.b
    [] y.t = "int" -> y.n = 0
    [] y.t = "float" -> y.m = 0 /\ y.special = "no"
    [] OTHER -> FALSE

\* str(y)
str(y) ==
  CASE y.t = "bool" -> (IF y.b THEN <<"T", "r", "u", "e">> ELSE <<"F", "a", "l", "s", "e">>)
    [] y.t = "int" -> int_str(y.n)
    [] y.t = "float" -> float_str(y)
    [] y.t = "str" -> y.s
    [] y.t = "NoneType" -> <<"N", "o", "n", "e">>
    [] OTHER -> <<"[", "]">>

(***************************************************************************)
(* The parameter vocabulary.                                               *)
(***************************************************************************)
\* The first token of every line of _param_data, its "+" stripped, without
\* duplicates, and 'no_mayo'.
all_proj_keys ==
  {
    "a", "alpha", "axis", "b", "datum", "ellps", "init", "k", "k_0",
    "lat_0", "lat_1", "lat_2", "lat_ts", "lon_0", "lonc", "lon_wrap",
    "nadgrids", "no_defs", "over", "pm", "proj", "south", "to_meter",
    "towgs84", "units", "vto_meter", "vunits", "x_0", "y_0", "zone", "azi",
    "belgium", "beta", "czech", "e", "es", "f", "gamma", "geoc", "guam",
    "h", "K", "lat_b", "lat_t", "lon_1", "lon_2", "lsat", "m", "M", "n",
    "no_cut", "no_off", "no_rot", "ns", "o_alpha", "o_lat_1", "o_lat_2",
    "o_lat_c", "o_lat_p", "o_lon_1", "o_lon_2", "o_lon_c", "o_lon_p",
    "o_proj", "p", "path", "q", "R", "R_a", "R_A", "rf", "R_g", "R_h",
    "R_lat_a", "R_lat_g", "rot", "R_V", "s", "sym", "t", "theta", "tilt",
    "vopt", "W", "westo", "no_mayo"
  }

(***************************************************************************)
(* Mappings: a dict is the sequence of its (key, value) items in insertion *)
(* order, the keys distinct.                                               *)
(***************************************************************************)
dict_keys(d) == {d[i][1] : i \in DOMAIN d}

dict_items(d) == {d[i] : i \in DOMAIN d}

\* d[k] = v: a key already there keeps its place and takes the new value.
dict_set(d, k, v) ==
  IF k \in dict_keys(d)
  THEN [i \in DOMAIN d |-> IF d[i][1] = k THEN <<k, v>> ELSE d[i]]
  ELSE Append(d, <<k, v>>)

\* dict(pairs), the pairs taken in order
RECURSIVE dict_of(_)
dict_of(pairs) ==
  IF pairs = <<>> THEN <<>>
  ELSE dict_set(dict_of(SubSeq(pairs, 1, Len(pairs) - 1)),
                pairs[Len(pairs)][1], pairs[Len(pairs)][2])

\* The container: a UserDict over its data.
CRS(d) == [t |-> "CRS", data |-> d]

PyDict(d) == [t |-> "dict", data |-> d]

\* bool(obj) of a container or a plain value
nonempty(obj) == IF obj.t \in {"CRS", "dict"} THEN obj.data # <<>> ELSE truthy(obj)

\* How a call ends.
Return(v) == [kind |-> "return", val |-> v]

Raise(exc, msg) == [kind |-> "raise", exc |-> exc, msg |-> msg]

NoResult == [kind |-> "none"]

(***************************************************************************)
(* CRS.to_string                                                           *)
(***************************************************************************)
\* sorted(): items in ascending order of their keys (the keys are distinct).
RECURSIVE insert_sorted(_, _)
insert_sorted(x, s) ==
  IF s = <<>> THEN <<x>>
  ELSE IF str_less(x[1], Head(s)[1]) THEN <<x>> \o s
  ELSE <<Head(s)>> \o insert_sorted(x, Tail(s))

\* sorted() left out: the items in insertion order.
unsorted(s) == s

RECURSIVE sorted(_)
sorted(s) == IF s = <<>> THEN <<>> ELSE insert_sorted(Head(s), sorted(Tail(s)))

\* The filter over self.items(): lambda x at lines 73-75.
selected(x) ==
  /\ Str(x[1]) \in all_proj_keys
  /\ x[2] # PyFalse
  /\ (x[2].t \in {"bool", "int", "float"} \/ x[2].t = "str")

\* The filter over (k, v) without "or y == 0": a zero is dropped like true.
shown_dropping_zero(y) == truthy(y) /\ y # PyTrue

\* The filter over (k, v): lambda y at line 80.
shown(y) == (truthy(y) \/ equals_zero(y)) /\ y # PyTrue

\* The token of one item: "+" + "=".join(map(str, filter(shown, (k, v)))).
token(x) ==
  LET kept == SelectSeq(<<PyStr(x[1]), x[2]>>, shown)
  IN <<"+">> \o join(<<"=">>, [i \in DOMAIN kept |-> str(kept[i])])

to_string(d) ==
  LET items == sorted(SelectSeq(d, selected))
  IN join(<<" ">>, [i \in DOMAIN items |-> token(items[i])])

(***************************************************************************)
(* CRS.from_epsg                                                           *)
(***************************************************************************)
\* int(code) succeeds: code is an int, or a str that writes one.
int_ok(c) == c.t = "int" \/ (c.t = "str" /\ is_int_literal(c.s))

int_of(c) == IF c.t = "int" THEN c.n ELSE int_of_str(c.s)

\* from_epsg with "< 0" for "<= 0": the code 0 is accepted.
from_epsg_accepting_zero(c) ==
  IF ~int_ok(c) THEN Raise("ValueError", "invalid literal for int() with base 10")
  ELSE IF int_of(c) < 0 THEN Raise("ValueError", "EPSG codes are positive integers")
  ELSE Return(CRS(<< <<<<"i", "n", "i", "t">>, PyStr(<<"e", "p", "s", "g", ":">> \o str(c))>>,
                     <<<<"n", "o", "_", "d", "e", "f", "s">>, PyTrue>> >>))

from_epsg(c) ==
  IF ~int_ok(c) THEN Raise("ValueError", "invalid literal for int() with base 10")
  ELSE IF int_of(c) <= 0 THEN Raise("ValueError", "EPSG codes are positive integers")
  ELSE Return(CRS(<< <<<<"i", "n", "i", "t">>, PyStr(<<"e", "p", "s", "g", ":">> \o str(c))>>,
                     <<<<"n", "o", "_", "d", "e", "f", "s">>, PyTrue>> >>))

(***************************************************************************)
(* CRS.from_string                                                         *)
(***************************************************************************)
\* The JSON documents among the strings the model decodes, each with the
\* value json.loads gives for it. Every other string with a "{" that the
\* model decodes starts with "+" or a letter and is no JSON document.
json_documents ==
  { <<<<"{", "}">>, PyDict(<<>>)>>,
    <<<<" ", "{", " ", "}", " ">>, PyDict(<<>>)>>,
    <<<<"[", "{", "}", "]">>, PyList(<<PyDict(<<>>)>>)>>,
    <<<<"{", "\"", "p", "r", "o", "j", "\"", ":", " ", "\"", "l", "o", "n", "g", "l", "a", "t", "\"", ",", " ", "\"", "b", "o", "g", "u", "s", "\"", ":", " ", "1", "}">>,
      PyDict(<< <<<<"p", "r", "o", "j">>, PyStr(<<"l", "o", "n", "g", "l", "a", "t">>)>>, <<<<"b", "o", "g", "u", "s">>, PyInt(1)>> >>)>>,
    <<<<"{", "\"", "i", "n", "i", "t", "\"", ":", " ", "\"", "e", "p", "s", "g", ":", "4", "3", "2", "6", "\"", "}">>,
      PyDict(<< <<<<"i", "n", "i", "t">>, PyStr(<<"e", "p", "s", "g", ":", "4", "3", "2", "6">>)>> >>)>> }

json_valid(s) == \E doc \in json_documents : doc[1] = s

json_loads(s) == (CHOOSE doc \in json_documents : doc[1] = s)[2]

\* parse without its float(v) step: a float literal stays a text.
parse_without_float(v) ==
  IF Str(v) \in {"True", "true"} THEN PyTrue
  ELSE IF Str(v) \in {"False", "false"} THEN PyFalse
  ELSE IF is_int_literal(v) THEN PyInt(int_of_str(v))
  ELSE PyStr(v)

\* parse(v), lines 111-124
parse(v) ==
  IF Str(v) \in {"True", "true"} THEN PyTrue
  ELSE IF Str(v) \in {"False", "false"} THEN PyFalse
  ELSE IF is_int_literal(v) THEN PyInt(int_of_str(v))
  ELSE IF is_float_literal(v) THEN float_of_str(v)
  ELSE PyStr(v)

\* lambda kv at line 127
item_of(kv) == IF Len(kv) = 2 THEN <<kv[1], parse(kv[2])>> ELSE <<kv[1], PyTrue>>

\* parts, line 109
parts_of(s) ==
  LET ws == split_whitespace(strip(s)) IN [i \in DOMAIN ws |-> lstrip(ws[i], {"+"})]

\* items, lines 126-128
items_of(s) == [i \in DOMAIN parts_of(s) |-> item_of(split(parts_of(s)[i], "="))]

\* The test "k in all_proj_keys" left out.
in_any_vocabulary(x) == TRUE

in_vocabulary(x) == Str(x[1]) \in all_proj_keys

\* from_string with the EPSG: test placed before the "{" test.
from_string_epsg_first(s) ==
  IF startswith(upper(strip(s)), "EPSG:") THEN from_epsg(PyStr(split(s, ":")[2]))
  ELSE IF contains(s, "{")
  THEN IF ~json_valid(s) THEN Raise("CRSError", "crs appears to be JSON but is not valid")
       ELSE IF ~nonempty(json_loads(s)) THEN Raise("CRSError", "crs is empty JSON")
       ELSE Return(json_loads(s))
  ELSE LET out == CRS(dict_of(SelectSeq(items_of(s), in_vocabulary)))
       IN IF out.data = <<>>
          THEN Raise("CRSError", "crs is empty or invalid: " \o Str(s))
          ELSE Return(out)

from_string(s) ==
  IF contains(s, "{")
  THEN IF ~json_valid(s) THEN Raise("CRSError", "crs appears to be JSON but is not valid")
       ELSE IF ~nonempty(json_loads(s)) THEN Raise("CRSError", "crs is empty JSON")
       ELSE Return(json_loads(s))
  ELSE IF startswith(upper(strip(s)), "EPSG:") THEN from_epsg(PyStr(split(s, ":")[2]))
  ELSE LET out == CRS(dict_of(SelectSeq(items_of(s), in_vocabulary)))
       IN IF out.data = <<>>
          THEN Raise("CRSError", "crs is empty or invalid: " \o Str(s))
          ELSE Return(out)

(***************************************************************************)
(* The inputs the model draws.                                             *)
(***************************************************************************)
\* Parameter names: three of the vocabulary, and three that are not in it
\* (an unknown name, a name in the wrong case, the empty name).
KeyNames ==
  {
    <<"p", "r", "o", "j">>, <<"z", "o", "n", "e">>, <<"K">>,
    <<"b", "o", "g", "u", "s">>, <<"P", "R", "O", "J">>, <<>>
  }

\* Raw values, the text after the "=" of a token.
RawValues ==
  {
    <<>>, <<"1">>, <<"1", "2">>, <<"-", "5">>, <<"+", "5">>,
    <<"0", "0", "7">>, <<"4", ".", "5">>, <<"1", "e", "5">>, <<".", "5">>,
    <<"5", ".">>, <<"t", "r", "u", "e">>, <<"T", "r", "u", "e">>,
    <<"f", "a", "l", "s", "e">>, <<"F", "a", "l", "s", "e">>,
    <<"T", "R", "U", "E">>, <<"u", "t", "m">>, <<"n", "a", "n">>,
    <<"i", "n", "f">>, <<"-">>, <<"1", ".", "2", ".", "3">>,
    <<"e", "p", "s", "g", ":", "1">>
  }

\* One token: an optional "+", a name, and nothing, or "=" and a raw value,
\* or two "=" and two raw values.
PlusSigns == {<<>>, <<"+">>}

SecondValues == {<<>>, <<"1">>, <<"u", "t", "m">>}

SingleTokens ==
  {p \o k : p \in PlusSigns, k \in KeyNames}
    \cup {p \o k \o <<"=">> \o v : p \in PlusSigns, k \in KeyNames, v \in RawValues}
    \cup {<<"+">> \o k \o <<"=">> \o v \o <<"=">> \o w :
            k \in KeyNames, v \in SecondValues, w \in SecondValues}

\* The tokens of strings of several tokens.
FewTokens ==
  {
    <<"+", "p", "r", "o", "j", "=", "u", "t", "m">>,
    <<"+", "z", "o", "n", "e", "=", "1", "2">>,
    <<"+", "b", "o", "g", "u", "s", "=", "1">>,
    <<"+", "n", "o", "_", "d", "e", "f", "s">>,
    <<"+", "p", "r", "o", "j", "=", "l", "o", "n", "g", "l", "a", "t">>,
    <<"+", "z", "o", "n", "e", "=", "a", "=", "b">>
  }

SeveralTokens ==
  {join(<<" ">>, ts) : ts \in UNION {[1..n -> FewTokens] : n \in 2..MaxTokens}}

\* "EPSG:<code>" strings: the prefix in several cases and with leading
\* whitespace, the code, and what may follow it.
EpsgPrefixes ==
  {
    <<"E", "P", "S", "G", ":">>, <<"e", "p", "s", "g", ":">>,
    <<" ", "E", "p", "s", "g", ":">>, <<"\t", "E", "P", "S", "G", ":">>
  }

EpsgCodeTexts ==
  {
    <<"4", "3", "2", "6">>, <<"0">>, <<"-", "5">>, <<"a", "b", "c">>, <<>>,
    <<"+", "5">>, <<"0", "0", "7">>
  }

EpsgSuffixes ==
  {
    <<>>, <<" ">>, <<":", "x">>, <<" ", "+", "p", "r", "o", "j", "=", "u", "t", "m">>
  }

EpsgStrings == {p \o c \o x : p \in EpsgPrefixes, c \in EpsgCodeTexts, x \in EpsgSuffixes}

\* Strings with whitespace around and between tokens, degenerate strings, and
\* strings with a "{": JSON documents and strings that are not.
OtherStrings ==
  {
    <<>>, <<" ">>, <<"+">>, <<"=">>,
    <<"+", "+", "p", "r", "o", "j", "=", "u", "t", "m">>,
    <<"+", "p", "r", "o", "j", "=", "=">>,
    <<"+", "p", "r", "o", "j", "=", "u", "t", "m", "=">>,
    <<" ", "+", "p", "r", "o", "j", "=", "u", "t", "m", "\t", "+", "z", "o", "n", "e", "=", "1", "2", " ">>,
    <<"+", "p", "r", "o", "j", "=", "u", "t", "m", " ", " ", "+", "p", "r", "o", "j", "=", "l", "o", "n", "g", "l", "a", "t">>,
    <<"E", "P", "S", "G", " ", ":", "1">>, <<"E", "P", "S", "G">>,
    <<"+", "i", "n", "i", "t", "=", "E", "P", "S", "G", ":", "1">>, <<"{">>,
    <<"E", "P", "S", "G", ":", "4", "3", "2", "6", " ", "{">>,
    <<"+", "p", "r", "o", "j", "=", "u", "t", "m", " ", "{">>,
    <<"{", "p", "r", "o", "j", "}">>, <<"{", "}">>,
    <<" ", "{", " ", "}", " ">>, <<"[", "{", "}", "]">>,
    <<"{", "\"", "p", "r", "o", "j", "\"", ":", " ", "\"", "l", "o", "n", "g", "l", "a", "t", "\"", ",", " ", "\"", "b", "o", "g", "u", "s", "\"", ":", " ", "1", "}">>,
    <<"{", "\"", "i", "n", "i", "t", "\"", ":", " ", "\"", "e", "p", "s", "g", ":", "4", "3", "2", "6", "\"", "}">>
  }

Strings == SingleTokens \cup SeveralTokens \cup EpsgStrings \cup OtherStrings

\* The codes handed to from_epsg: integers and str.
CodeTexts ==
  {
    <<"4", "3", "2", "6">>, <<"0">>, <<"-", "5">>, <<"a", "b", "c">>, <<>>,
    <<"+", "5">>, <<"0", "0", "7">>, <<" ", "1", "2", " ">>,
    <<"4", ".", "5">>, <<"1", "e", "3">>, <<"-">>, <<"1", "2", "x">>
  }

Codes == {PyInt(n) : n \in (-1..MaxCode) \cup {4326}} \cup {PyStr(s) : s \in CodeTexts}

\* The mappings handed to the CRS constructor: up to MaxEntries items, in any
\* insertion order, over three names (one outside the vocabulary) and these
\* values.
MappingKeys ==
  {
    <<"p", "r", "o", "j">>, <<"z", "o", "n", "e">>, <<"b", "o", "g", "u", "s">>
  }

MappingValues ==
  { PyTrue, PyFalse, PyInt(0), PyInt(10), Float(1, 0, 0), Float(1, 455, -1),
    FloatSpecial(1, "nan"), PyNone,
    PyStr(<<>>),
    PyStr(<<"u", "t", "m">>),
    PyStr(<<"t", "r", "u", "e">>),
    PyStr(<<"1", "0">>),
    PyStr(<<"a", "=", "b">>),
    PyStr(<<"{">>)
  }

distinct_keys(d) == \A i, j \in DOMAIN d : d[i][1] = d[j][1] => i = j

Mappings ==
  {d \in UNION {[1..n -> MappingKeys \X MappingValues] : n \in 0..MaxEntries} :
     distinct_keys(d)}

(***************************************************************************)
(* The native spatial-reference handles.                                   *)
(***************************************************************************)
Handles == 1..MaxHandles

\* The handle a construction returns: one not handed out during this call
\* and not live.
new_handle == CHOOSE h \in Handles : h \notin live \cup owned /\ \A g \in Handles : g < h => g \in live \cup owned

NoLocals == [osr_crs |-> 0, osr_crs2 |-> 0, retval |-> 0, pending |-> FALSE]

\* _base._osr_from_crs(obj) succeeds: the new handle is live and stored in
\* the local variable var.
Constructed(var, next) ==
  /\ live' = live \cup {new_handle}
  /\ owned' = owned \cup {new_handle}
  /\ locals' = [locals EXCEPT ![var] = new_handle]
  /\ pc' = next
  /\ UNCHANGED <<self, prjs, code, ret, freed, stack>>

\* An exception leaves the method, and is_valid above it, which has no
\* handler: the call ends with the exception.
Raised(exc, msg) ==
  /\ pc' = "idle"
  /\ ret' = Raise(exc, msg)
  /\ stack' = <<>>
  /\ locals' = NoLocals
  /\ UNCHANGED <<self, prjs, code, live, owned, freed>>

\* _base._osr_from_crs(obj) fails: no handle is returned.
ConstructionFailed == Raised("CRSError", "spatial reference could not be constructed")

\* _gdal.OSRDestroySpatialReference(h)
Destroyed(h, next) ==
  /\ live' = live \ {h}
  /\ freed' = Append(freed, h)
  /\ pc' = next
  /\ UNCHANGED <<self, prjs, code, ret, owned, locals, stack>>

\* A query of the collaborator answers 0 or 1.
Queried(next) ==
  /\ \E r \in {0, 1} : locals' = [locals EXCEPT !.retval = r]
  /\ pc' = next
  /\ UNCHANGED <<self, prjs, code, ret, live, owned, freed, stack>>

\* return v: to the caller on the stack, or out of the call.
Returned(v) ==
  /\ ret' = Return(v)
  /\ pc' = IF stack = <<>> THEN "idle" ELSE Head(stack)
  /\ stack' = IF stack = <<>> THEN <<>> ELSE Tail(stack)
  /\ locals' = NoLocals
  /\ UNCHANGED <<self, prjs, code, live, owned, freed>>

PyBool(b) == [t |-> "bool", b |-> b]

\* A method of the container is called: the handles of the call are counted
\* from here.
Called(entry) ==
  /\ pc = "idle"
  /\ Cardinality(live) + 2 <= MaxHandles
  /\ pc' = entry
  /\ owned' = {}
  /\ freed' = <<>>
  /\ ret' = NoResult
  /\ locals' = NoLocals
  /\ UNCHANGED <<self, prjs, code, live, stack>>

\* is_geographic, lines 37-41
CallIsGeographic == Called("is_geographic.38")

IsGeographic38 ==
  /\ pc = "is_geographic.38"
  /\ (Constructed("osr_crs", "is_geographic.39") \/ ConstructionFailed)

IsGeographic39 == pc = "is_geographic.39" /\ Queried("is_geographic.40")

IsGeographic40 == pc = "is_geographic.40" /\ Destroyed(locals.osr_crs, "is_geographic.41")

IsGeographic41 == pc = "is_geographic.41" /\ Returned(PyBool(locals.retval = 1))

\* is_projected, lines 43-47
CallIsProjected == Called("is_projected.44")

IsProjected44 ==
  /\ pc = "is_projected.44"
  /\ (Constructed("osr_crs", "is_projected.45") \/ ConstructionFailed)

IsProjected45 == pc = "is_projected.45" /\ Queried("is_projected.46")

IsProjected46 == pc = "is_projected.46" /\ Destroyed(locals.osr_crs, "is_projected.47")

IsProjected47 == pc = "is_projected.47" /\ Returned(PyBool(locals.retval = 1))

\* is_valid, line 35: self.is_geographic() or self.is_projected()
CallIsValid == Called("is_valid.35")

IsValid35 ==
  /\ pc = "is_valid.35"
  /\ pc' = "is_geographic.38"
  /\ stack' = <<"is_valid.35.or">> \o stack
  /\ UNCHANGED <<self, prjs, code, ret, live, owned, freed, locals>>

IsValid35Or ==
  /\ pc = "is_valid.35.or"
  /\ IF ret.val = PyTrue
     THEN Returned(PyTrue)
     ELSE /\ pc' = "is_projected.44"
          /\ stack' = <<"is_valid.35.return">> \o stack
          /\ UNCHANGED <<self, prjs, code, ret, live, owned, freed, locals>>

IsValid35Return == pc = "is_valid.35.return" /\ Returned(ret.val)

\* __eq__, lines 55-61
CallEq == Called("__eq__.56")

Eq56 == pc = "__eq__.56" /\ (Constructed("osr_crs", "__eq__.57") \/ ConstructionFailed)

Eq57 == pc = "__eq__.57" /\ (Constructed("osr_crs2", "__eq__.58") \/ ConstructionFailed)

Eq58 == pc = "__eq__.58" /\ Queried("__eq__.59")

Eq59 == pc = "__eq__.59" /\ Destroyed(locals.osr_crs, "__eq__.60")

Eq60 == pc = "__eq__.60" /\ Destroyed(locals.osr_crs2, "__eq__.61")

Eq61 == pc = "__eq__.61" /\ Returned(PyBool(locals.retval = 1))

\* wkt, lines 147-157
CallWkt == Called("wkt.150")

Wkt150 == pc = "wkt.150" /\ (Constructed("osr_crs", "wkt.152") \/ ConstructionFailed)

\* try: OSRExportToWkt, then srcwkt.decode('utf-8'), which may raise
Wkt152 ==
  /\ pc = "wkt.152"
  /\ \E raises \in BOOLEAN : locals' = [locals EXCEPT !.pending = raises]
  /\ pc' = "wkt.155"
  /\ UNCHANGED <<self, prjs, code, ret, live, owned, freed, stack>>

\* finally: CPLFree(srcwkt)
Wkt155 ==
  /\ pc = "wkt.155"
  /\ pc' = "wkt.156"
  /\ UNCHANGED <<self, prjs, code, ret, live, owned, freed, locals, stack>>

\* finally: OSRDestroySpatialReference(osr)
Wkt156 == pc = "wkt.156" /\ Destroyed(locals.osr_crs, "wkt.157")

\* the pending exception leaves the method, or return wkt
Wkt157 ==
  /\ pc = "wkt.157"
  /\ IF locals.pending
     THEN Raised("UnicodeDecodeError", "srcwkt is not UTF-8")
     ELSE Returned(PyStr(<<"W", "K", "T">>))

(***************************************************************************)
(* The codec's calls.                                                      *)
(***************************************************************************)
\* s = crs.to_string(), crs the container over self
ToString ==
  /\ pc = "have_mapping"
  /\ ret' = Return(PyStr(to_string(self)))
  /\ prjs' = to_string(self)
  /\ pc' = "encoded"
  /\ UNCHANGED <<self, code, live, owned, freed, locals, stack>>

\* CRS.from_string(prjs), of a string given or of the string just encoded
FromString ==
  /\ pc \in {"have_string", "encoded"}
  /\ ret' = from_string(prjs)
  /\ pc' = IF pc = "encoded" THEN "round_trip" ELSE "decoded"
  /\ UNCHANGED <<self, prjs, code, live, owned, freed, locals, stack>>

\* CRS.from_epsg(code)
FromEpsg ==
  /\ pc = "have_code"
  /\ ret' = from_epsg(code)
  /\ pc' = "constructed"
  /\ UNCHANGED <<self, prjs, code, live, owned, freed, locals, stack>>

(***************************************************************************)
(* The specification.                                                      *)
(***************************************************************************)
\* A caller has a PROJ.4, EPSG or JSON string to decode, or a mapping in a
\* container to encode, or an EPSG code, or a container whose methods it
\* calls.
Init ==
  /\ ret = NoResult
  /\ live = {}
  /\ owned = {}
  /\ freed = <<>>
  /\ locals = NoLocals
  /\ stack = <<>>
  /\ \/ pc = "have_string" /\ prjs \in Strings /\ self = <<>> /\ code = PyNone
     \/ pc = "have_mapping" /\ self \in Mappings /\ prjs = <<>> /\ code = PyNone
     \/ pc = "have_code" /\ code \in Codes /\ prjs = <<>> /\ self = <<>>
     \/ pc = "idle" /\ self = <<>> /\ prjs = <<>> /\ code = PyNone

Next ==
  \/ ToString \/ FromString \/ FromEpsg
  \/ CallIsGeographic \/ IsGeographic38 \/ IsGeographic39 \/ IsGeographic40 \/ IsGeographic41
  \/ CallIsProjected \/ IsProjected44 \/ IsProjected45 \/ IsProjected46 \/ IsProjected47
  \/ CallIsValid \/ IsValid35 \/ IsValid35Or \/ IsValid35Return
  \/ CallEq \/ Eq56 \/ Eq57 \/ Eq58 \/ Eq59 \/ Eq60 \/ Eq61
  \/ CallWkt \/ Wkt150 \/ Wkt152 \/ Wkt155 \/ Wkt156 \/ Wkt157

Spec == Init /\ [][Next]_vars

(***************************************************************************)
(* The properties.                                                         *)
(***************************************************************************)
\* from_string has returned or raised.
DecodeDone == pc \in {"decoded", "round_trip"}

\* The input takes the PROJ.4 path: no "{", and its trimmed, case-insensitive
\* form does not start with EPSG:.
OnProjPath(s) == ~contains(s, "{") /\ ~startswith(upper(strip(s)), "EPSG:")

OnEpsgPath(s) == ~contains(s, "{") /\ startswith(upper(strip(s)), "EPSG:")

\* The tokens of a PROJ.4 string, and of a token its name (the text left of
\* the first "=", leading "+" dropped) and its raw value (the text right of
\* the first "=").
TokensOf(s) == split_whitespace(s)

HasEquals(tok) == contains(tok, "=")

NameOf(tok) ==
  LET u == lstrip(tok, {"+"})
  IN IF HasEquals(u) THEN SubSeq(u, 1, find(u, "=") - 1) ELSE u

RawOf(tok) == LET u == lstrip(tok, {"+"}) IN drop(u, find(u, "="))

\* The last token of s with the name k.
LastTokenNamed(s, k) ==
  LET ts == TokensOf(s)
      i == CHOOSE n \in DOMAIN ts :
             NameOf(ts[n]) = k /\ \A m \in DOMAIN ts : m > n => NameOf(ts[m]) # k
  IN ts[i]

VocabularyNames(s) ==
  {k \in {NameOf(TokensOf(s)[i]) : i \in DOMAIN TokensOf(s)} : Str(k) \in all_proj_keys}

\* Two values are equal as Python compares them within one type: NaN equals
\* nothing.
SameValue(v, w) == v = w /\ ~(v.t = "float" /\ v.special = "nan")

SamePairs(a, b) ==
  /\ dict_keys(a) = dict_keys(b)
  /\ \A i \in DOMAIN a : \A j \in DOMAIN b : a[i][1] = b[j][1] => SameValue(a[i][2], b[j][2])

\* A mapping of vocabulary names to boolean true, integers, floats or text.
Canonical(d) ==
  \A i \in DOMAIN d :
    /\ Str(d[i][1]) \in all_proj_keys
    /\ d[i][2].t \in {"bool", "int", "float", "str"}
    /\ d[i][2] # PyFalse

\* A value a PROJ.4 string can carry: a text that is not empty, has no
\* whitespace, "=" or "{", and reads neither as a boolean nor as a number;
\* a float that is not NaN; boolean true; an integer.
Carried(v) ==
  CASE v.t = "str" ->
         /\ v.s # <<>>
         /\ \A i \in DOMAIN v.s : v.s[i] \notin whitespace \cup {"=", "{"}
         /\ Str(v.s) \notin {"True", "true", "False", "false"}
         /\ ~is_int_literal(v.s)
         /\ ~is_float_literal(v.s)
    [] v.t = "float" -> v.special # "nan"
    [] OTHER -> TRUE

\* C1, as stated: for every mapping of vocabulary names to boolean true,
\* integers, floats or text, decoding what to_string gave succeeds and returns
\* the same pairs.
C1_RoundTripOfEveryMapping ==
  (pc = "round_trip" /\ Canonical(self)) =>
    (ret.kind = "return" /\ SamePairs(ret.val.data, self))

\* C1, amended: the round trip returns the same pairs for every mapping that
\* is not empty and whose values a PROJ.4 string can carry.
C1_RoundTripOfCarriedValues ==
  (/\ pc = "round_trip"
   /\ Canonical(self)
   /\ self # <<>>
   /\ \A i \in DOMAIN self : Carried(self[i][2])) =>
    (ret.kind = "return" /\ ret.val.t = "CRS" /\ SamePairs(ret.val.data, self))

\* C1's case: a float and a text have made the round trip.
C1_Witness ==
  /\ pc = "round_trip"
  /\ self = << <<<<"z", "o", "n", "e">>, Float(1, 455, -1)>>, <<<<"p", "r", "o", "j">>, PyStr(<<"u", "t", "m">>)>> >>
  /\ Str(prjs) = "+proj=utm +zone=45.5"
  /\ ret = Return(CRS(<< <<<<"p", "r", "o", "j">>, PyStr(<<"u", "t", "m">>)>>, <<<<"z", "o", "n", "e">>, Float(1, 455, -1)>> >>))

\* C2: on the PROJ.4 path, the names of the returned mapping are exactly the
\* vocabulary names among the tokens, and decoding succeeds whenever there is
\* one: a name outside the vocabulary is dropped and is no error.
C2_VocabularyFiltering ==
  (DecodeDone /\ OnProjPath(prjs)) =>
    /\ VocabularyNames(prjs) # {} => ret.kind = "return"
    /\ ret.kind = "return" =>
         /\ \A k \in dict_keys(ret.val.data) : Str(k) \in all_proj_keys
         /\ dict_keys(ret.val.data) = VocabularyNames(prjs)

\* C2's case: "+bogus=1 +proj=longlat" has given proj alone.
C2_Witness ==
  /\ pc = "decoded"
  /\ Str(prjs) = "+bogus=1 +proj=longlat"
  /\ ret = Return(CRS(<< <<<<"p", "r", "o", "j">>, PyStr(<<"l", "o", "n", "g", "l", "a", "t">>)>> >>))

\* The rest of a string after its first ":".
AfterFirstColon(s) == drop(s, find(s, ":"))

\* C3, as stated: an EPSG: string gives what from_epsg gives for the rest of
\* the trimmed string after its first ":".
C3_EpsgShorthand ==
  (DecodeDone /\ OnEpsgPath(prjs)) => ret = from_epsg(PyStr(AfterFirstColon(strip(prjs))))

\* int(code) succeeds and its value, for an int or a str.
WritesInteger(c) == c.t = "int" \/ (c.t = "str" /\ is_digits(unsigned(strip(c.s))))

IntegerOf(c) == IF c.t = "int" THEN c.n ELSE int_of_str(c.s)

\* C4: from_epsg raises ValueError exactly for a code that writes no integer
\* or one that is <= 0, and returns {init: "epsg:<code>", no_defs: true} for
\* every other; from_string raises another kind, CRSError, for an empty or
\* invalid PROJ.4 string and for bad or empty JSON.
C4_FromEpsg ==
  /\ pc = "constructed" =>
       IF ~WritesInteger(code) \/ IntegerOf(code) <= 0
       THEN ret.kind = "raise" /\ ret.exc = "ValueError"
       ELSE ret = Return(CRS(<< <<<<"i", "n", "i", "t">>, PyStr(<<"e", "p", "s", "g", ":">> \o str(code))>>,
                                <<<<"n", "o", "_", "d", "e", "f", "s">>, PyTrue>> >>))
  /\ (DecodeDone /\ ~OnEpsgPath(prjs) /\ ret.kind = "raise") => ret.exc = "CRSError"

\* C4's case: the code 0 has been refused.
C4_Witness ==
  /\ pc = "constructed"
  /\ code = PyInt(0)
  /\ ret = Raise("ValueError", "EPSG codes are positive integers")

\* C5: a string with a "{" is decoded as JSON and in no other way: it raises
\* the invalid-JSON error when it is no JSON document, the empty-JSON error
\* when the document is empty, and otherwise returns the document as it is,
\* names outside the vocabulary kept.
C5_JsonPath ==
  (DecodeDone /\ contains(prjs, "{")) =>
    IF \A doc \in json_documents : doc[1] # prjs
    THEN ret = Raise("CRSError", "crs appears to be JSON but is not valid")
    ELSE \A doc \in json_documents :
           doc[1] = prjs =>
             IF doc[2].t = "dict" /\ doc[2].data = <<>>
             THEN ret = Raise("CRSError", "crs is empty JSON")
             ELSE ret = Return(doc[2])

\* C5's case: a JSON document has been returned with a name outside the
\* vocabulary.
C5_Witness ==
  /\ pc = "decoded"
  /\ Str(prjs) = "{\"proj\": \"longlat\", \"bogus\": 1}"
  /\ ret.kind = "return"
  /\ <<"b", "o", "g", "u", "s">> \in dict_keys(ret.val.data)
  /\ "bogus" \notin all_proj_keys

\* The entries to_string is to encode: the name is in the vocabulary and the
\* value is a boolean other than false, an integer, a float or a text.
Survives(x) ==
  /\ Str(x[1]) \in all_proj_keys
  /\ x[2].t \in {"bool", "int", "float", "str"}
  /\ ~(x[2].t = "bool" /\ ~x[2].b)

Survivors(d) == {x \in dict_items(d) : Survives(x)}

\* The tokens of an encoded string, which single spaces separate (no value
\* of MappingValues has a space in it), none for the empty string.
EncodedTokens(s) == IF s = <<>> THEN <<>> ELSE split(s, " ")

\* The same items in every insertion order.
Reorderings(d) ==
  {[i \in DOMAIN d |-> d[p[i]]] :
     p \in {q \in [DOMAIN d -> DOMAIN d] : \A i, j \in DOMAIN d : q[i] = q[j] => i = j}}

\* C6: to_string gives one token for each surviving entry and no other, the
\* tokens in ascending order of their names and joined by single spaces; the
\* same entries inserted in another order give the same string; no surviving
\* entry gives the empty string.
C6_SortedEncode ==
  pc = "encoded" =>
    LET ts == EncodedTokens(prjs) IN
    /\ ret = Return(PyStr(prjs))
    /\ Len(ts) = Cardinality(Survivors(self))
    /\ {NameOf(ts[i]) : i \in DOMAIN ts} = {x[1] : x \in Survivors(self)}
    /\ \A i \in DOMAIN ts : Head(ts[i]) = "+" /\ NameOf(ts[i]) = NameOf(Tail(ts[i]))
    /\ \A i, j \in DOMAIN ts : i < j => str_less(NameOf(ts[i]), NameOf(ts[j]))
    /\ \A d \in Reorderings(self) : to_string(d) = prjs
    /\ Survivors(self) = {} => prjs = <<>>

\* C6's case: {"zone": 10, "proj": "utm"} has given "+proj=utm +zone=10".
C6_Witness ==
  /\ pc = "encoded"
  /\ self = << <<<<"z", "o", "n", "e">>, PyInt(10)>>, <<<<"p", "r", "o", "j">>, PyStr(<<"u", "t", "m">>)>> >>
  /\ ret = Return(PyStr(<<"+", "p", "r", "o", "j", "=", "u", "t", "m", " ", "+", "z", "o", "n", "e", "=", "1", "0">>))

\* The scalar-typing rule: the boolean literals, then an integer, then a
\* float, then the text itself.
ScalarTyping(raw) ==
  IF Str(raw) \in {"True", "true"} THEN PyTrue
  ELSE IF Str(raw) \in {"False", "false"} THEN PyFalse
  ELSE IF is_digits(unsigned(raw)) THEN PyInt(sign_of(raw) * digits_value(unsigned(raw)))
  ELSE IF is_float_literal(raw) THEN float_of_str(raw)
  ELSE PyStr(raw)

\* C7, as stated: the value decoded for a key=value token is the scalar
\* typing of its raw value, and for a token with no "=" it is true.
C7_ScalarTyping ==
  (DecodeDone /\ OnProjPath(prjs) /\ ret.kind = "return") =>
    \A x \in dict_items(ret.val.data) :
      LET tok == LastTokenNamed(prjs, x[1])
      IN x[2] = IF HasEquals(tok) THEN ScalarTyping(RawOf(tok)) ELSE PyTrue

\* The scalar typing holds of the tokens with at most one "=".
ScalarTypingOfOneEquals ==
  (DecodeDone /\ OnProjPath(prjs) /\ ret.kind = "return") =>
    \A x \in dict_items(ret.val.data) :
      LET tok == LastTokenNamed(prjs, x[1])
      IN ~contains(RawOf(tok), "=") =>
           x[2] = IF HasEquals(tok) THEN ScalarTyping(RawOf(tok)) ELSE PyTrue

\* C8, as stated: a token with an "=" is split at its first "=", and all the
\* text right of it is the raw value given to parse; only a token with no "="
\* is a bare flag.
C8_SplitOnFirstEquals ==
  (DecodeDone /\ OnProjPath(prjs)) =>
    LET ts == TokensOf(strip(prjs))
        pairs == [i \in DOMAIN ts |->
                    IF HasEquals(ts[i]) THEN <<NameOf(ts[i]), parse(RawOf(ts[i]))>>
                    ELSE <<NameOf(ts[i]), PyTrue>>]
        kept == dict_of(SelectSeq(pairs, LAMBDA x : Str(x[1]) \in all_proj_keys))
    IN IF kept = <<>> THEN ret.kind = "raise" ELSE ret = Return(CRS(kept))

\* The token of a surviving entry as C9 states it: the bare name for true,
\* name=value for every other value.
TokenAsStated(x) ==
  IF x[2] = PyTrue THEN <<"+">> \o x[1] ELSE <<"+">> \o x[1] \o <<"=">> \o str(x[2])

\* The token of a surviving entry: the bare name for true and for the empty
\* text, name=value for every other value.
TokenAsAmended(x) ==
  IF x[2] = PyTrue \/ x[2] = PyStr(<<>>) THEN <<"+">> \o x[1]
  ELSE <<"+">> \o x[1] \o <<"=">> \o str(x[2])

TokenSet(s) == {EncodedTokens(s)[i] : i \in DOMAIN EncodedTokens(s)}

\* C9, as stated: every surviving entry is rendered bare exactly when its
\* value is true, and as name=value otherwise, the empty text included.
C9_TokenRendering ==
  pc = "encoded" => \A x \in Survivors(self) : TokenAsStated(x) \in TokenSet(prjs)

\* C9, amended: every surviving entry is rendered bare exactly when its value
\* is true or the empty text, and as name=value otherwise: 0 as name=0, 0.0
\* as name=0.0, a text that is not empty as it is.
C9_TokenRenderingBareForEmptyText ==
  pc = "encoded" =>
    /\ \A x \in Survivors(self) : TokenAsAmended(x) \in TokenSet(prjs)
    /\ Cardinality(TokenSet(prjs)) = Cardinality(Survivors(self))

\* C9's case: a zero and an empty text have been encoded.
C9_Witness ==
  /\ pc = "encoded"
  /\ self = << <<<<"z", "o", "n", "e">>, PyInt(0)>>, <<<<"p", "r", "o", "j">>, PyStr(<<>>)>> >>
  /\ ret = Return(PyStr(<<"+", "p", "r", "o", "j", " ", "+", "z", "o", "n", "e", "=", "0">>))

\* The number of times h was destroyed during the call.
TimesFreed(h) == Cardinality({i \in DOMAIN freed : freed[i] = h})

\* C10, as stated: when a call of the container has ended, returned or
\* failed, every handle constructed during it has been destroyed exactly
\* once, and no handle is live.
C10_PairedHandles ==
  pc = "idle" => (live = {} /\ \A h \in owned : TimesFreed(h) = 1)

\* No handle is destroyed twice, or destroyed while not live.
HandlesFreedAtMostOnce == \A h \in Handles : TimesFreed(h) <= 1 /\ (h \in live => TimesFreed(h) = 0)

====
